---- MODULE Spec2Model ----
(***************************************************************************)
(* Placement puzzle of Course-paper: ChessLogic.py (ChessFigure,           *)
(* ChessBoard, ChessSolver) and the part of Windows.py that drives it.     *)
(*                                                                         *)
(* Python values are modelled as follows.                                  *)
(*   - an object reference (a ChessFigure) is a record carrying an id;     *)
(*     two records are equal exactly when they are the same object, which  *)
(*     is what the default == of a Python object decides;                  *)
(*   - an Optional value is a sequence of length 0 (None) or 1;            *)
(*   - a list indexed from 0 is a function on 0..len-1; list indexing      *)
(*     follows Python: -len..-1 wrap around, anything else is IndexError;  *)
(*   - a text is a sequence of one-character strings.                      *)
(***************************************************************************)
EXTENDS Integers, Sequences, FiniteSets, TLC

\* Bounds of the model.
MaxSearchN == 2  \* Spec: largest board size passed to create_board
MaxL == 2        \* Spec: largest number of pieces to place
MaxK == 2        \* Spec: largest number of pre-placed pieces
MaxN == 3        \* SpecBoard: largest board size passed to ChessBoard
MaxPieces == 2   \* SpecBoard: cap on the pieces a call sequence places
MaxWideN == 3    \* SpecWide: largest board size passed to create_board
MaxWideL == 1    \* SpecWide: largest number of pieces to place
MaxWideK == 1    \* SpecWide: largest number of pre-placed pieces
MaxUIN == 2      \* SpecUI: largest board size entered
MaxUIL == 1      \* SpecUI: largest number of pieces to place entered
MaxUIK == 1      \* SpecUI: largest number of pre-placed pieces entered
MaxClicks == 2   \* SpecUI: cap on the searches requested from one window
MaxFormN == 2    \* SpecForm: largest board size typed into the form
MaxFormL == 1    \* SpecForm: largest number of pieces to place typed
MaxFormK == 2    \* SpecForm: largest number of pre-placed pieces typed
MaxFormClicks == 1  \* SpecForm: cap on the searches started from the form

VARIABLES
    board,               \* the ChessBoard find_solutions works on (the board under test)
    piece_arrangements,  \* solver.piece_arrangements
    found_solutions,     \* solver.found_solutions
    pc,                  \* position of the caller / of the solver thread
    stack,               \* activation records of recursive_solver
    arr,                 \* index of find_solutions' loop over piece_arrangements
    args,                \* arguments of the last create_board call
    error,               \* exception caught by the caller ("" when none)
    output_file,         \* text written by save_results
    ret,                 \* outcome of the last direct ChessBoard call
    call,                \* name of the last direct ChessBoard call
    message,             \* kind of the last QMessageBox shown ("" when none)
    chess_board,         \* solver.chess_board, the attribute run emits
    connections,         \* slots connected to solver.solving_complete
    emitted,             \* emissions of solving_complete so far
    pending,             \* queued calls of _handle_solution
    dialogs,             \* DeskWindow dialogs open (each runs exec())
    ui_pc,               \* position of the UI thread inside _render_board
    save_pc,             \* position of the SolutionSaver thread
    save_left,           \* members the saver's set iterator has not visited
    save_size,           \* size of the set when the iterator was created
    board_size_input,    \* text of the N field
    pieces_to_place_input, \* text of the L field
    placed_pieces_input, \* text of the K field
    pieces_positions,    \* window.pieces_positions (None: no such attribute)
    board_initialized,   \* window.board_initialized
    create_board_button, \* isEnabled() of the coordinates button
    draw_board_button,   \* isEnabled() of the draw-board button
    input_dialog,        \* pieces_count of the CoordinatesInputDialog in exec()
    closing,             \* closeEvent has accepted the close of the main window
    attempts             \* coordinates recursive_solver has tried since then

\* the main window and its dialogs
window_vars == <<chess_board, connections, emitted, pending, dialogs, ui_pc>>

\* the SolutionSaver thread
saver_vars == <<save_pc, save_left, save_size>>

\* the input form of the main window and its coordinates dialog
form_vars == <<board_size_input, pieces_to_place_input, placed_pieces_input,
               pieces_positions, board_initialized, create_board_button,
               draw_board_button, input_dialog>>

\* the close of the main window
close_vars == <<closing, attempts>>

ui_vars == <<message, window_vars, saver_vars, form_vars, close_vars>>

vars == <<board, piece_arrangements, found_solutions, pc, stack, arr, args,
          error, output_file, ret, call, ui_vars>>

None == <<>>
Some(v) == <<v>>

-----------------------------------------------------------------------------
\* ChessFigure

\* offsets along the x axis only
possible_moves_one_axis == << <<-1, 0>>, <<1, 0>>, <<-2, 0>>, <<2, 0>> >>

\* the offsets with (-2, 0) left out
possible_moves_asymmetric ==
    << <<-1, 0>>, <<1, 0>>, <<0, -1>>, <<0, 1>>, <<2, 0>>, <<0, -2>>, <<0, 2>> >>

\* ChessFigure.__init__: the threat offsets every figure carries.
possible_moves ==
    << <<-1, 0>>, <<1, 0>>, <<0, -1>>, <<0, 1>>,
       <<-2, 0>>, <<2, 0>>, <<0, -2>>, <<0, 2>> >>

ChessFigure(id, pos_x, pos_y) == [id |-> id, pos_x |-> pos_x, pos_y |-> pos_y]

-----------------------------------------------------------------------------
\* Python list indexing

\* len(range(n))
RangeLen(n) == IF n > 0 THEN n ELSE 0

\* list[i] raises IndexError unless -len <= i < len
IndexRaises(len, i) == ~(-len <= i /\ i < len)

\* the position list[i] reads when it does not raise
PyIndex(len, i) == IF i >= 0 THEN i ELSE i + len

-----------------------------------------------------------------------------
\* ChessBoard

ChessBoard(board_size) ==
    [board_size |-> board_size,
     cells |-> [y \in 0..(board_size - 1) |->
                  [x \in 0..(board_size - 1) |->
                     [x |-> x, y |-> y, piece |-> None, threatened |-> FALSE]]],
     placed_pieces |-> <<>>]

Rows(b) == Cardinality(DOMAIN b.cells)

\* self.cells[pos_y][pos_x] raises IndexError
CellRaises(b, pos_x, pos_y) ==
    IndexRaises(Rows(b), pos_y) \/ IndexRaises(Rows(b), pos_x)

\* self.cells[pos_y][pos_x]
Cell(b, pos_x, pos_y) ==
    b.cells[PyIndex(Rows(b), pos_y)][PyIndex(Rows(b), pos_x)]

is_position_empty(b, pos_x, pos_y) == Cell(b, pos_x, pos_y).piece = None

\* is_position_safe without its loop over the placed pieces
is_position_safe_unchecked(b, piece) ==
    /\ 0 <= piece.pos_x /\ piece.pos_x < b.board_size
    /\ 0 <= piece.pos_y /\ piece.pos_y < b.board_size
    /\ is_position_empty(b, piece.pos_x, piece.pos_y)

is_position_safe(b, piece) ==
    IF ~(/\ 0 <= piece.pos_x /\ piece.pos_x < b.board_size
         /\ 0 <= piece.pos_y /\ piece.pos_y < b.board_size)
    THEN FALSE
    ELSE IF ~is_position_empty(b, piece.pos_x, piece.pos_y)
    THEN FALSE
    ELSE \A i \in 1..Len(b.placed_pieces) :
            \A m \in 1..Len(possible_moves) :
               ~(/\ b.placed_pieces[i].pos_x + possible_moves[m][1] = piece.pos_x
                 /\ b.placed_pieces[i].pos_y + possible_moves[m][2] = piece.pos_y)

\* update_threatened_cells, first loop: every flag reset
ResetThreatened(cells) ==
    [y \in DOMAIN cells |->
       [x \in DOMAIN cells[y] |-> [cells[y][x] EXCEPT !.threatened = FALSE]]]

\* update_threatened_cells, inner loop: the moves m.. of one piece
RECURSIVE MarkMoves(_, _, _, _)
MarkMoves(cells, board_size, piece, m) ==
    IF m > Len(possible_moves) THEN cells
    ELSE LET new_x == piece.pos_x + possible_moves[m][1]
             new_y == piece.pos_y + possible_moves[m][2]
             marked ==
                 IF /\ 0 <= new_x /\ new_x < board_size
                    /\ 0 <= new_y /\ new_y < board_size
                 THEN [cells EXCEPT ![new_y][new_x].threatened = TRUE]
                 ELSE cells
         IN  MarkMoves(marked, board_size, piece, m + 1)

\* update_threatened_cells, outer loop: the pieces i.. of placed_pieces
RECURSIVE MarkPieces(_, _, _, _)
MarkPieces(cells, board_size, pieces, i) ==
    IF i > Len(pieces) THEN cells
    ELSE MarkPieces(MarkMoves(cells, board_size, pieces[i], 1),
                    board_size, pieces, i + 1)

\* update_threatened_cells without the reset of the flags
update_threatened_cells_no_reset(b) ==
    [b EXCEPT !.cells = MarkPieces(b.cells, b.board_size, b.placed_pieces, 1)]

update_threatened_cells(b) ==
    [b EXCEPT !.cells =
        MarkPieces(ResetThreatened(b.cells), b.board_size, b.placed_pieces, 1)]

\* Outcome of a call: exc is "" or the exception raised, ret the value
\* returned, board the board afterwards.
Outcome(exc, r, b) == [exc |-> exc, ret |-> r, board |-> b]

place_piece(b, piece) ==
    IF CellRaises(b, piece.pos_x, piece.pos_y)
    THEN Outcome("IndexError", FALSE, b)
    ELSE IF \/ ~is_position_empty(b, piece.pos_x, piece.pos_y)
            \/ ~is_position_safe(b, piece)
    THEN Outcome("", FALSE, b)
    ELSE Outcome("", TRUE,
            update_threatened_cells(
               [b EXCEPT !.cells[piece.pos_y][piece.pos_x].piece = Some(piece),
                         !.placed_pieces = Append(@, piece)]))

\* list.remove: the first element equal to v is dropped
RECURSIVE ListRemove(_, _)
ListRemove(s, v) ==
    IF s = <<>> THEN s
    ELSE IF Head(s) = v THEN Tail(s)
    ELSE <<Head(s)>> \o ListRemove(Tail(s), v)

\* remove_piece that clears the cell and leaves placed_pieces as it is
remove_piece_keeps_list(b, piece) ==
    IF CellRaises(b, piece.pos_x, piece.pos_y)
    THEN Outcome("IndexError", FALSE, b)
    ELSE IF Cell(b, piece.pos_x, piece.pos_y).piece = Some(piece)
    THEN Outcome("", FALSE,
            update_threatened_cells(
               [b EXCEPT
                  !.cells[PyIndex(Rows(b), piece.pos_y)][PyIndex(Rows(b), piece.pos_x)].piece = None]))
    ELSE Outcome("", FALSE, b)

\* remove_piece that compares the coordinate and not the object
remove_piece_by_coordinate(b, piece) ==
    IF CellRaises(b, piece.pos_x, piece.pos_y)
    THEN Outcome("IndexError", FALSE, b)
    ELSE IF Cell(b, piece.pos_x, piece.pos_y).piece # None
    THEN Outcome("", FALSE,
            update_threatened_cells(
               [b EXCEPT
                  !.cells[PyIndex(Rows(b), piece.pos_y)][PyIndex(Rows(b), piece.pos_x)].piece = None,
                  !.placed_pieces = ListRemove(@, Cell(b, piece.pos_x, piece.pos_y).piece[1])]))
    ELSE Outcome("", FALSE, b)

remove_piece(b, piece) ==
    IF CellRaises(b, piece.pos_x, piece.pos_y)
    THEN Outcome("IndexError", FALSE, b)
    ELSE IF Cell(b, piece.pos_x, piece.pos_y).piece = Some(piece)
    THEN Outcome("", FALSE,
            update_threatened_cells(
               [b EXCEPT
                  !.cells[PyIndex(Rows(b), piece.pos_y)][PyIndex(Rows(b), piece.pos_x)].piece = None,
                  !.placed_pieces = ListRemove(@, piece)]))
    ELSE Outcome("", FALSE, b)

\* a safety check done by placing the candidate and leaving it on the board
is_position_safe_by_placing(b, piece) == place_piece(b, piece)

\* A call of is_position_safe as its caller sees it: the method assigns
\* nothing and indexes cells only behind its range test, so that it returns
\* its value and leaves the board it was given.
is_position_safe_call(b, piece) == Outcome("", is_position_safe(b, piece), b)

\* A new object is distinct from every object still referenced.
FreshId(b) ==
    CHOOSE i \in 0..Len(b.placed_pieces) :
       \A j \in 1..Len(b.placed_pieces) : b.placed_pieces[j].id # i

-----------------------------------------------------------------------------
\* ChessSolver

\* combinations that yields nothing for l = 0
combinations_without_empty(l) == IF l = 0 THEN {} ELSE { [i \in 1..l |-> " "] }

\* set(combinations_with_replacement(' ', l)): the single l-tuple of ' '
\* (itertools raises ValueError for l < 0, checked by the caller below)
combinations_with_replacement(l) == { [i \in 1..l |-> " "] }

\* list(a set): its members in some order
RECURSIVE ListOf(_)
ListOf(S) ==
    IF S = {} THEN <<>>
    ELSE LET e == CHOOSE e \in S : TRUE IN <<e>> \o ListOf(S \ {e})

\* create_board, the loop over initial_pieces from index i on; the return
\* value of place_piece is not looked at, an exception ends the loop
RECURSIVE SeedPieces(_, _, _)
SeedPieces(b, initial_pieces, i) ==
    IF i > Len(initial_pieces) THEN Outcome("", TRUE, b)
    ELSE LET piece == ChessFigure(FreshId(b), initial_pieces[i][1], initial_pieces[i][2])
             r == place_piece(b, piece)
         IN  IF r.exc # "" THEN r
             ELSE SeedPieces(r.board, initial_pieces, i + 1)

create_board(n, l, k, initial_pieces) ==
    LET seeded == IF k > 0 THEN SeedPieces(ChessBoard(n), initial_pieces, 1)
                  ELSE Outcome("", TRUE, ChessBoard(n))
    IN  IF seeded.exc # ""
        THEN [exc |-> seeded.exc, board |-> None, placement_options |-> <<>>]
        ELSE IF l < 0
        THEN [exc |-> "ValueError", board |-> None, placement_options |-> <<>>]
        ELSE [exc |-> "", board |-> Some(seeded.board),
              placement_options |-> ListOf(combinations_with_replacement(l))]

\* frozenset((p.pos_x, p.pos_y) for p in board.placed_pieces)
Coordinates(pieces) == { <<pieces[i].pos_x, pieces[i].pos_y>> : i \in 1..Len(pieces) }

\* An activation of recursive_solver: its argument, the loop variables and
\* the piece it has placed while the call below it runs.
Frame(remaining_pieces) ==
    [remaining_pieces |-> remaining_pieces, y |-> 0, x |-> 0, new_piece |-> None]

Top == stack[Len(stack)]
Pop == SubSeq(stack, 1, Len(stack) - 1)

\* a scan that leaves a row after its first coordinate
Advance_next_row(f, n) == [f EXCEPT !.y = f.y + 1, !.x = 0, !.new_piece = None]

\* a scan that starts its row again at the end of the row
Advance_same_row(f, n) ==
    IF f.x + 1 < n THEN [f EXCEPT !.x = f.x + 1, !.new_piece = None]
    ELSE [f EXCEPT !.x = 0, !.new_piece = None]

\* the next (y, x) of "for y in range(n): for x in range(n)"
Advance(f, n) ==
    IF f.x + 1 < n THEN [f EXCEPT !.x = f.x + 1, !.new_piece = None]
    ELSE [f EXCEPT !.y = f.y + 1, !.x = 0, !.new_piece = None]

LoopDone(f, n) == f.y >= n

\* The values create_board is called with.
InputCoords(n) == (-1..RangeLen(n)) \X (-1..RangeLen(n))

RECURSIVE SeqsOfLen(_, _)
SeqsOfLen(S, k) ==
    IF k = 0 THEN { <<>> }
    ELSE { <<e>> \o s : e \in S, s \in SeqsOfLen(S, k - 1) }

\* _render_board, lines 179-184: create_board, then start_solving; an
\* exception of either is caught and shown.
RenderBoard(n, l, k, initial_pieces) ==
    /\ pc = "idle"
    /\ LET r == create_board(n, l, k, initial_pieces)
       IN  /\ args' = [n |-> n, l |-> l, k |-> k, initial_pieces |-> initial_pieces]
           /\ IF r.exc # ""
              THEN /\ error' = r.exc
                   /\ message' = "critical"
                   /\ pc' = "failed"
                   /\ UNCHANGED <<board, piece_arrangements, arr>>
              ELSE /\ board' = r.board[1]
                   /\ piece_arrangements' = r.placement_options
                   /\ arr' = 1
                   /\ pc' = "running"
                   /\ UNCHANGED <<error, message>>
    /\ UNCHANGED <<found_solutions, stack, output_file, ret, call>>
    /\ UNCHANGED <<window_vars, saver_vars, form_vars, close_vars>>

\* find_solutions: "for arrangement in piece_arrangements: recursive_solver(arrangement)"
CallSolver ==
    /\ pc = "running"
    /\ stack = <<>>
    /\ arr <= Len(piece_arrangements)
    /\ stack' = <<Frame(piece_arrangements[arr])>>
    /\ arr' = arr + 1
    /\ UNCHANGED <<board, piece_arrangements, found_solutions, pc, args,
                   error, output_file, ret>>
    /\ UNCHANGED call
    /\ UNCHANGED ui_vars

\* recursive_solver, lines 156-158: nothing remains, the placement is recorded
RecordSolution ==
    /\ pc = "running"
    /\ stack # <<>>
    /\ Top.remaining_pieces = <<>>
    /\ found_solutions' = found_solutions \cup {Coordinates(board.placed_pieces)}
    /\ stack' = Pop
    /\ UNCHANGED <<board, piece_arrangements, pc, arr, args, error,
                   output_file, ret>>
    /\ UNCHANGED call
    /\ UNCHANGED ui_vars

\* recursive_solver, lines 161-165: one coordinate is tried
TryPlace ==
    /\ pc = "running"
    /\ stack # <<>>
    /\ Top.remaining_pieces # <<>>
    /\ Top.new_piece = None
    /\ ~LoopDone(Top, board.board_size)
    /\ LET new_piece == ChessFigure(FreshId(board), Top.x, Top.y)
           r == place_piece(board, new_piece)
       IN  IF r.ret
           THEN /\ board' = r.board
                /\ stack' = [stack EXCEPT ![Len(stack)].new_piece = Some(new_piece)]
                                \o <<Frame(Tail(Top.remaining_pieces))>>
           ELSE /\ board' = board
                /\ stack' = [stack EXCEPT ![Len(stack)] = Advance(@, board.board_size)]
    /\ UNCHANGED <<piece_arrangements, found_solutions, pc, arr, args, error,
                   output_file, ret>>
    /\ UNCHANGED call
    /\ attempts' = IF closing THEN attempts + 1 ELSE attempts
    /\ UNCHANGED <<message, window_vars, saver_vars, form_vars, closing>>

\* a return from the call below that leaves the piece on the board
Backtrack_no_remove ==
    /\ pc = "running"
    /\ stack # <<>>
    /\ Top.new_piece # None
    /\ board' = board
    /\ stack' = [stack EXCEPT ![Len(stack)] = Advance(@, board.board_size)]
    /\ UNCHANGED <<piece_arrangements, found_solutions, pc, arr, args, error,
                   output_file, ret>>
    /\ UNCHANGED call
    /\ UNCHANGED ui_vars

\* recursive_solver, line 166: the call below has returned, the piece is removed
Backtrack ==
    /\ pc = "running"
    /\ stack # <<>>
    /\ Top.new_piece # None
    /\ board' = remove_piece(board, Top.new_piece[1]).board
    /\ stack' = [stack EXCEPT ![Len(stack)] = Advance(@, board.board_size)]
    /\ UNCHANGED <<piece_arrangements, found_solutions, pc, arr, args, error,
                   output_file, ret>>
    /\ UNCHANGED call
    /\ UNCHANGED ui_vars

\* recursive_solver: both loops are exhausted, the activation returns
ReturnSolver ==
    /\ pc = "running"
    /\ stack # <<>>
    /\ Top.remaining_pieces # <<>>
    /\ Top.new_piece = None
    /\ LoopDone(Top, board.board_size)
    /\ stack' = Pop
    /\ UNCHANGED <<board, piece_arrangements, found_solutions, pc, arr, args,
                   error, output_file, ret>>
    /\ UNCHANGED call
    /\ UNCHANGED ui_vars

\* run, line 188: find_solutions has returned, solving_complete is emitted
SolvingComplete ==
    /\ pc = "running"
    /\ stack = <<>>
    /\ arr > Len(piece_arrangements)
    /\ pc' = "done"
    /\ UNCHANGED <<board, piece_arrangements, found_solutions, stack, arr,
                   args, error, output_file, ret>>
    /\ UNCHANGED call
    /\ UNCHANGED ui_vars

-----------------------------------------------------------------------------
\* ChessSolver.save_results

Digits == <<"0", "1", "2", "3", "4", "5", "6", "7", "8", "9">>

\* str(n) of a natural number
RECURSIVE NatText(_)
NatText(n) ==
    IF n < 10 THEN <<Digits[n + 1]>>
    ELSE NatText(n \div 10) \o <<Digits[(n % 10) + 1]>>

\* str(n) of an integer, as an f-string formats {x}
IntText(n) == IF n < 0 THEN <<"-">> \o NatText(-n) ELSE NatText(n)

\* f"({x}, {y})"
CoordText(c) == <<"(">> \o IntText(c[1]) \o <<",", " ">> \o IntText(c[2]) \o <<")">>

\* a join that puts nothing between the texts
RECURSIVE Join_no_separator(_)
Join_no_separator(texts) ==
    IF texts = <<>> THEN <<>>
    ELSE texts[1] \o Join_no_separator(Tail(texts))

\* " ".join(texts)
RECURSIVE Join(_)
Join(texts) ==
    IF texts = <<>> THEN <<>>
    ELSE IF Len(texts) = 1 THEN texts[1]
    ELSE texts[1] \o <<" ">> \o Join(Tail(texts))

\* "no solutions\n"
NoSolutionsText ==
    <<"n", "o", " ", "s", "o", "l", "u", "t", "i", "o", "n", "s", "\n">>

\* Iterating a set or frozenset visits every member once, in an order the
\* language leaves open.  The model takes the order from a family of total
\* orders: by the key below, ascending or descending.
IterOrders == {"ascending", "descending"}

\* rank of a frozenset of coordinates: its members as bits (coordinates of a
\* solution lie on the board, 0 <= x, y < Width)
Width == MaxSearchN + 2
CoordKey(c) == (c[2] + 1) * Width + (c[1] + 1)

RECURSIVE SolutionKey(_)
SolutionKey(solution) ==
    IF solution = {} THEN 0
    ELSE LET c == CHOOSE c \in solution : TRUE
         IN  2 ^ CoordKey(c) + SolutionKey(solution \ {c})

\* the key of a member: of a coordinate in a frozenset, of a frozenset in
\* the set of solutions
IterKey(e, kind) == IF kind = "coordinate" THEN CoordKey(e) ELSE SolutionKey(e)

\* list(S) iterated in the given order of the keys
RECURSIVE Iterate(_, _, _)
Iterate(S, kind, order) ==
    IF S = {} THEN <<>>
    ELSE LET first == CHOOSE e \in S : \A o \in S :
                         IF order = "ascending" THEN IterKey(e, kind) <= IterKey(o, kind)
                         ELSE IterKey(e, kind) >= IterKey(o, kind)
         IN  <<first>> \o Iterate(S \ {first}, kind, order)

\* " ".join(f"({x}, {y})" for x, y in solution) + "\n"
SolutionLine(solution, order) ==
    LET coords == Iterate(solution, "coordinate", order)
    IN  Join([i \in 1..Len(coords) |-> CoordText(coords[i])]) \o <<"\n">>

\* the for loop of save_results over the solutions from index i on
RECURSIVE WriteSolutions(_, _, _)
WriteSolutions(solutions, order, i) ==
    IF i > Len(solutions) THEN <<>>
    ELSE SolutionLine(solutions[i], order) \o WriteSolutions(solutions, order, i + 1)

\* save_results without its else branch
save_results_no_marker(solutions, order) ==
    WriteSolutions(Iterate(solutions, "solution", order), order, 1)

\* the text save_results leaves in the file it has opened
save_results(solutions, order) ==
    IF solutions # {}
    THEN WriteSolutions(Iterate(solutions, "solution", order), order, 1)
    ELSE NoSolutionsText

\* SolutionSaver.run that reports success whatever save_results did
SaveResults_swallowing(order, opened) ==
    /\ pc \in {"done", "saved"}
    /\ output_file' = IF opened THEN Some(save_results(found_solutions, order))
                      ELSE None
    /\ error' = ""
    /\ message' = "information"
    /\ pc' = "saved"
    /\ UNCHANGED <<board, piece_arrangements, found_solutions, stack, arr,
                   args, ret, call>>
    /\ UNCHANGED <<window_vars, saver_vars, form_vars, close_vars>>

\* A save once the search has reported, and any further save to another
\* file: SolutionSaver.run calls save_results(filename, solver.found_solutions)
\* and emits completed(filename, ""), or completed(filename, str(e)) when
\* open() has raised and nothing is written; _handle_save_result then shows
\* the critical box for a non-empty message and the information box
\* otherwise.  output_file is the file named by this call, error the
\* message emitted (str(e) is kept as the name of the exception).
SaveResults(order, opened) ==
    /\ pc \in {"done", "saved"}
    /\ IF opened
       THEN /\ output_file' = Some(save_results(found_solutions, order))
            /\ error' = ""
       ELSE /\ output_file' = None
            /\ error' = "OSError"
    /\ message' = IF error' # "" THEN "critical" ELSE "information"
    /\ pc' = "saved"
    /\ UNCHANGED <<board, piece_arrangements, found_solutions, stack, arr,
                   args, ret, call>>
    /\ UNCHANGED <<window_vars, saver_vars, form_vars, close_vars>>

-----------------------------------------------------------------------------
\* Spec: one search on a new solver.  ChessSolver() is constructed, then
\* create_board and start_solving are called once (with any arguments within
\* the bounds), run searches step by step and reports, and save_results
\* writes what was found.  The pre-placed list has k members, as the
\* interface of create_board asks; its coordinates range over -1..n, which
\* covers negative, on-board and too large values.

NoBoard == ChessBoard(0)

\* ChessAppWindow.__init__: no search started, nothing connected, no dialog
InitWindows ==
    /\ message = ""
    /\ chess_board = None
    /\ connections = 0
    /\ emitted = 0
    /\ pending = <<>>
    /\ dialogs = 0
    /\ ui_pc = "ready"
    /\ save_pc = "none"
    /\ save_left = {}
    /\ save_size = 0
    /\ board_size_input = None
    /\ pieces_to_place_input = None
    /\ placed_pieces_input = None
    /\ pieces_positions = None
    /\ board_initialized = FALSE
    /\ create_board_button = TRUE
    /\ draw_board_button = FALSE
    /\ input_dialog = None
    /\ closing = FALSE
    /\ attempts = 0

Init ==
    /\ board = NoBoard
    /\ piece_arrangements = <<>>
    /\ found_solutions = {}
    /\ pc = "idle"
    /\ stack = <<>>
    /\ arr = 1
    /\ args = [n |-> 0, l |-> 0, k |-> 0, initial_pieces |-> <<>>]
    /\ error = ""
    /\ output_file = None
    /\ ret = "None"
    /\ call = ""
    /\ InitWindows

Next ==
    \/ /\ pc = "idle"
       /\ \E n \in -1..MaxSearchN, l \in -1..MaxL, k \in 0..MaxK :
             \E initial_pieces \in SeqsOfLen(InputCoords(n), k) :
                RenderBoard(n, l, k, initial_pieces)
    \/ CallSolver
    \/ RecordSolution
    \/ TryPlace
    \/ Backtrack
    \/ ReturnSolver
    \/ SolvingComplete
    \/ /\ pc \in {"done", "saved"}
       /\ \E order \in IterOrders, opened \in BOOLEAN : SaveResults(order, opened)

Spec == Init /\ [][Next]_vars

\* SpecWide: the same single search, on boards up to MaxWideN with fewer
\* pieces.
NextWide ==
    \/ /\ pc = "idle"
       /\ \E n \in -1..MaxWideN, l \in -1..MaxWideL, k \in 0..MaxWideK :
             \E initial_pieces \in SeqsOfLen(InputCoords(n), k) :
                RenderBoard(n, l, k, initial_pieces)
    \/ CallSolver
    \/ RecordSolution
    \/ TryPlace
    \/ Backtrack
    \/ ReturnSolver
    \/ SolvingComplete
    \/ /\ pc \in {"done", "saved"}
       /\ \E order \in IterOrders, opened \in BOOLEAN : SaveResults(order, opened)

SpecWide == Init /\ [][NextWide]_vars

-----------------------------------------------------------------------------
\* SpecUI: one ChessAppWindow with its solver (created once, in __init__),
\* the DeskWindow dialogs and a SolutionSaver.  Three threads take steps: the
\* UI thread (one handler at a time), the solver thread and the saver
\* thread.  The fields hold a board size of 1 or more, a number of pieces
\* to place of -1 or more, and the coordinates dialog has delivered k
\* positions on the board.  A message box is taken to
\* be dismissed at once.  One SolutionSaver runs at a time.

\* _render_board, lines 179-183, with board_initialized set: create_board,
\* then start_solving, which assigns the attributes and calls start();
\* start() does nothing while run is executing.  An exception is caught and
\* shown.  (solver.piece_arrangements is assigned as well; a run that is
\* executing keeps the list it was called with.)
DrawBoardClicked(n, l, k, initial_pieces) ==
    /\ ui_pc = "ready"
    /\ dialogs = 0
    /\ connections < MaxClicks
    /\ LET r == create_board(n, l, k, initial_pieces)
       IN  /\ args' = [n |-> n, l |-> l, k |-> k, initial_pieces |-> initial_pieces]
           /\ IF r.exc # ""
              THEN /\ error' = r.exc
                   /\ message' = "critical"
                   /\ UNCHANGED <<board, piece_arrangements, arr, stack, pc,
                                  chess_board, ui_pc>>
              ELSE /\ chess_board' = r.board
                   /\ ui_pc' = "connecting"
                   /\ IF pc = "running"
                      THEN UNCHANGED <<board, piece_arrangements, arr, stack, pc>>
                      ELSE /\ board' = r.board[1]
                           /\ piece_arrangements' = r.placement_options
                           /\ arr' = 1
                           /\ stack' = <<>>
                           /\ pc' = "running"
                   /\ UNCHANGED <<error, message>>
    /\ UNCHANGED <<found_solutions, output_file, ret, call, connections,
                   emitted, pending, dialogs, saver_vars>>
    /\ UNCHANGED <<form_vars, close_vars>>

\* _render_board, line 181: solving_complete.connect(self._handle_solution),
\* once more at every click that got this far
Connect ==
    /\ ui_pc = "connecting"
    /\ connections' = connections + 1
    /\ ui_pc' = "ready"
    /\ UNCHANGED <<board, piece_arrangements, found_solutions, pc, stack, arr,
                   args, error, output_file, ret, call, message, chess_board,
                   emitted, pending, dialogs, saver_vars>>
    /\ UNCHANGED <<form_vars, close_vars>>

\* run, line 188: solving_complete.emit(self.chess_board, self.found_solutions)
\* from the solver thread; every connected slot gets a queued call that
\* carries the board
SolvingCompleteQueued ==
    /\ pc = "running"
    /\ stack = <<>>
    /\ arr > Len(piece_arrangements)
    /\ pc' = "done"
    /\ emitted' = emitted + 1
    /\ pending' = pending \o [i \in 1..connections |-> chess_board[1]]
    /\ UNCHANGED <<board, piece_arrangements, found_solutions, stack, arr,
                   args, error, output_file, ret, call, message, chess_board,
                   connections, dialogs, ui_pc, saver_vars>>
    /\ UNCHANGED <<form_vars, close_vars>>

\* _handle_solution(board, solutions) in the UI thread, solutions being the
\* solver's set itself: for a non-empty set DeskWindow is built on the first
\* member iter() yields and shown with exec().  _display_solution indexes
\* board.cells with that member's coordinates: IndexError leaves the slot
\* and no dialog opens; otherwise what it places on the board it removes.
HandleSolution(order) ==
    /\ ui_pc = "ready"
    /\ pending # <<>>
    /\ pending' = Tail(pending)
    /\ dialogs' =
          IF found_solutions = {} THEN dialogs
          ELSE IF \E c \in Iterate(found_solutions, "solution", order)[1] :
                     CellRaises(Head(pending), c[1], c[2])
          THEN dialogs
          ELSE dialogs + 1
    /\ UNCHANGED <<board, piece_arrangements, found_solutions, pc, stack, arr,
                   args, error, output_file, ret, call, message, chess_board,
                   connections, emitted, ui_pc, saver_vars>>
    /\ UNCHANGED <<form_vars, close_vars>>

\* DeskWindow._save_solution with a file name chosen: a SolutionSaver is
\* created on solver.found_solutions (the set, not a copy) and started
SaveClicked ==
    /\ ui_pc = "ready"
    /\ dialogs > 0
    /\ save_pc \in {"none", "finished"}
    /\ save_pc' = "started"
    /\ UNCHANGED <<board, piece_arrangements, found_solutions, pc, stack, arr,
                   args, error, output_file, ret, call, message, window_vars,
                   save_left, save_size>>
    /\ UNCHANGED <<form_vars, close_vars>>

\* the close button of the topmost DeskWindow; its saver keeps running
DialogClosed ==
    /\ ui_pc = "ready"
    /\ dialogs > 0
    /\ dialogs' = dialogs - 1
    /\ UNCHANGED <<board, piece_arrangements, found_solutions, pc, stack, arr,
                   args, error, output_file, ret, call, message, chess_board,
                   connections, emitted, pending, ui_pc, saver_vars>>
    /\ UNCHANGED <<form_vars, close_vars>>

\* SolutionSaver.run, save_results lines 141-143: open(), "if solutions:",
\* and iter(solutions) for the loop.  open() raising ends run in its handler.
SaverOpen(opened) ==
    /\ save_pc = "started"
    /\ IF ~opened
       THEN /\ output_file' = None
            /\ error' = "OSError"
            /\ save_pc' = "failed"
            /\ UNCHANGED <<save_left, save_size>>
       ELSE IF found_solutions # {}
       THEN /\ output_file' = Some(<<>>)
            /\ save_pc' = "iterating"
            /\ save_left' = found_solutions
            /\ save_size' = Cardinality(found_solutions)
            /\ UNCHANGED error
       ELSE /\ output_file' = Some(NoSolutionsText)
            /\ error' = ""
            /\ save_pc' = "succeeded"
            /\ UNCHANGED <<save_left, save_size>>
    /\ UNCHANGED <<board, piece_arrangements, found_solutions, pc, stack, arr,
                   args, ret, call, message, window_vars>>
    /\ UNCHANGED <<form_vars, close_vars>>

\* save_results line 143-144, one turn of "for solution in solutions": the
\* set iterator raises RuntimeError when the set has changed size since
\* iter(); otherwise it yields a member not yet visited, whose line is
\* written, or ends the loop
SaverNext(order) ==
    /\ save_pc = "iterating"
    /\ IF Cardinality(found_solutions) # save_size
       THEN /\ error' = "RuntimeError"
            /\ save_pc' = "failed"
            /\ UNCHANGED <<output_file, save_left>>
       ELSE IF save_left = {}
       THEN /\ error' = ""
            /\ save_pc' = "succeeded"
            /\ UNCHANGED <<output_file, save_left>>
       ELSE LET solution == Iterate(save_left, "solution", order)[1]
            IN  /\ output_file' = Some(output_file[1] \o SolutionLine(solution, order))
                /\ save_left' = save_left \ {solution}
                /\ UNCHANGED <<error, save_pc>>
    /\ UNCHANGED <<board, piece_arrangements, found_solutions, pc, stack, arr,
                   args, ret, call, message, window_vars, save_size>>
    /\ UNCHANGED <<form_vars, close_vars>>

\* _handle_save_result(filename, error_msg) in the UI thread, for the
\* completed signal run has emitted
HandleSaveResult ==
    /\ ui_pc = "ready"
    /\ save_pc \in {"failed", "succeeded"}
    /\ message' = IF save_pc = "failed" THEN "critical" ELSE "information"
    /\ save_pc' = "finished"
    /\ UNCHANGED <<board, piece_arrangements, found_solutions, pc, stack, arr,
                   args, error, output_file, ret, call, window_vars,
                   save_left, save_size>>
    /\ UNCHANGED <<form_vars, close_vars>>

NextUI ==
    \/ /\ ui_pc = "ready" /\ dialogs = 0 /\ connections < MaxClicks
       /\ \E n \in 1..MaxUIN, l \in -1..MaxUIL, k \in 0..MaxUIK :
             \E initial_pieces \in SeqsOfLen((0..(n - 1)) \X (0..(n - 1)), k) :
                DrawBoardClicked(n, l, k, initial_pieces)
    \/ Connect
    \/ CallSolver
    \/ RecordSolution
    \/ TryPlace
    \/ Backtrack
    \/ ReturnSolver
    \/ SolvingCompleteQueued
    \/ \E order \in IterOrders : HandleSolution(order)
    \/ SaveClicked
    \/ DialogClosed
    \/ \E opened \in BOOLEAN : SaverOpen(opened)
    \/ \E order \in IterOrders : SaverNext(order)
    \/ HandleSaveResult

SpecUI == Init /\ [][NextUI]_vars

-----------------------------------------------------------------------------
\* SpecForm: the input form of ChessAppWindow in front of the same solver.
\* A field holds no text (None) or the decimal text of a number (Some(i)).
\* The coordinates dialog is modal: while it is in exec() the form takes
\* no input.  The typed numbers are a board size of 1 or more and counts
\* of 0 or more.

\* int(text): ValueError for the empty text
IntRaises(text) == text = None

\* text.isdigit()
isdigit(text) == text # None /\ text[1] >= 0

\* _update_buttons_state: the enabled states [create, draw] it sets
update_buttons_state(size_text, to_place_text, placed_text, initialized, positions) ==
    LET has_size == size_text # None
        has_to_place == to_place_text # None
        has_placed == placed_text # None
        placed_count == IF isdigit(placed_text) THEN placed_text[1] ELSE 0
    IN  [create |-> has_placed /\ placed_text # Some(0) /\ has_size,
         draw |-> /\ has_size /\ has_to_place /\ has_placed
                  /\ \/ placed_count = 0
                     \/ /\ initialized
                        /\ positions # None
                        /\ Len(positions[1]) = placed_count]

\* the form accepts input: no handler is running and no dialog is modal
FormReady == ui_pc = "ready" /\ dialogs = 0 /\ input_dialog = None

\* board_size_input edited; textChanged runs _update_buttons_state
EditBoardSize(text) ==
    /\ FormReady
    /\ text # board_size_input
    /\ board_size_input' = text
    /\ LET b == update_buttons_state(text, pieces_to_place_input, placed_pieces_input,
                                     board_initialized, pieces_positions)
       IN  /\ create_board_button' = b.create
           /\ draw_board_button' = b.draw
    /\ UNCHANGED <<pieces_to_place_input, placed_pieces_input, pieces_positions,
                   board_initialized, input_dialog>>
    /\ UNCHANGED <<board, piece_arrangements, found_solutions, pc, stack, arr,
                   args, error, output_file, ret, call, message, window_vars,
                   saver_vars, close_vars>>

\* pieces_to_place_input edited
EditPiecesToPlace(text) ==
    /\ FormReady
    /\ text # pieces_to_place_input
    /\ pieces_to_place_input' = text
    /\ LET b == update_buttons_state(board_size_input, text, placed_pieces_input,
                                     board_initialized, pieces_positions)
       IN  /\ create_board_button' = b.create
           /\ draw_board_button' = b.draw
    /\ UNCHANGED <<board_size_input, placed_pieces_input, pieces_positions,
                   board_initialized, input_dialog>>
    /\ UNCHANGED <<board, piece_arrangements, found_solutions, pc, stack, arr,
                   args, error, output_file, ret, call, message, window_vars,
                   saver_vars, close_vars>>

\* placed_pieces_input edited
EditPlacedPieces(text) ==
    /\ FormReady
    /\ text # placed_pieces_input
    /\ placed_pieces_input' = text
    /\ LET b == update_buttons_state(board_size_input, pieces_to_place_input, text,
                                     board_initialized, pieces_positions)
       IN  /\ create_board_button' = b.create
           /\ draw_board_button' = b.draw
    /\ UNCHANGED <<board_size_input, pieces_to_place_input, pieces_positions,
                   board_initialized, input_dialog>>
    /\ UNCHANGED <<board, piece_arrangements, found_solutions, pc, stack, arr,
                   args, error, output_file, ret, call, message, window_vars,
                   saver_vars, close_vars>>

\* _initialize_board up to input_dialog.exec(): a field that is not a number
\* is reported; for placed_count > 0 the dialog opens, otherwise the
\* positions become the empty list
InitializeBoardClicked ==
    /\ FormReady
    /\ create_board_button
    /\ IF \/ IntRaises(board_size_input)
          \/ IntRaises(pieces_to_place_input)
          \/ IntRaises(placed_pieces_input)
       THEN /\ message' = "critical"
            /\ draw_board_button' = FALSE
            /\ UNCHANGED <<pieces_positions, board_initialized, input_dialog>>
       ELSE IF placed_pieces_input[1] > 0
       THEN /\ input_dialog' = Some(placed_pieces_input[1])
            /\ UNCHANGED <<message, pieces_positions, board_initialized,
                           draw_board_button>>
       ELSE /\ pieces_positions' = Some(<<>>)
            /\ board_initialized' = TRUE
            /\ draw_board_button' = TRUE
            /\ UNCHANGED <<message, input_dialog>>
    /\ UNCHANGED <<board_size_input, pieces_to_place_input, placed_pieces_input,
                   create_board_button>>
    /\ UNCHANGED <<board, piece_arrangements, found_solutions, pc, stack, arr,
                   args, error, output_file, ret, call, window_vars, saver_vars,
                   close_vars>>

\* CoordinatesInputDialog._check_safety: every position is placed on a new
\* board of that size
RECURSIVE check_safety_from(_, _, _)
check_safety_from(b, positions, i) ==
    IF i > Len(positions) THEN TRUE
    ELSE LET r == place_piece(b, ChessFigure(FreshId(b), positions[i][1], positions[i][2]))
         IN  IF ~r.ret THEN FALSE
             ELSE check_safety_from(r.board, positions, i + 1)

check_safety(positions, board_size) ==
    check_safety_from(ChessBoard(board_size), positions, 1)

\* CoordinatesInputDialog.accept: the result is set and the dialog accepted
\* when every coordinate is on the board and _check_safety agrees
accept_passes(size_text, coordinates) ==
    /\ ~IntRaises(size_text)
    /\ \A i \in 1..Len(coordinates) :
          /\ 0 <= coordinates[i][1] /\ coordinates[i][1] < size_text[1]
          /\ 0 <= coordinates[i][2] /\ coordinates[i][2] < size_text[1]
    /\ check_safety(coordinates, size_text[1])

\* the dialog's OK button with the coordinates typed; an accepted dialog
\* ends exec() and _initialize_board goes on: lines 150-155
DialogAccept(coordinates) ==
    /\ ui_pc = "ready"
    /\ input_dialog # None
    /\ Len(coordinates) = input_dialog[1]
    /\ IF accept_passes(board_size_input, coordinates)
       THEN /\ pieces_positions' = Some(coordinates)
            /\ board_initialized' = TRUE
            /\ draw_board_button' = TRUE
            /\ input_dialog' = None
            /\ UNCHANGED message
       ELSE /\ message' = "warning"
            /\ UNCHANGED <<pieces_positions, board_initialized,
                           draw_board_button, input_dialog>>
    /\ UNCHANGED <<board_size_input, pieces_to_place_input, placed_pieces_input,
                   create_board_button>>
    /\ UNCHANGED <<board, piece_arrangements, found_solutions, pc, stack, arr,
                   args, error, output_file, ret, call, window_vars, saver_vars,
                   close_vars>>

\* the dialog's cancel button: exec() returns Rejected, the positions are
\* left as they are and _initialize_board goes on: lines 154-155
DialogReject ==
    /\ ui_pc = "ready"
    /\ input_dialog # None
    /\ input_dialog' = None
    /\ board_initialized' = TRUE
    /\ draw_board_button' = TRUE
    /\ UNCHANGED <<board_size_input, pieces_to_place_input, placed_pieces_input,
                   pieces_positions, create_board_button>>
    /\ UNCHANGED <<board, piece_arrangements, found_solutions, pc, stack, arr,
                   args, error, output_file, ret, call, message, window_vars,
                   saver_vars, close_vars>>

\* _render_board for a click on the enabled draw-board button: the fields
\* are read again and create_board gets self.pieces_positions
RenderBoardClicked ==
    /\ FormReady
    /\ draw_board_button
    /\ connections < MaxFormClicks
    /\ IF ~board_initialized
       THEN /\ message' = "warning"
            /\ UNCHANGED <<board, piece_arrangements, found_solutions, pc, stack,
                           arr, args, error, output_file, ret, call, window_vars,
                           saver_vars, form_vars, close_vars>>
       ELSE IF \/ IntRaises(board_size_input)
               \/ IntRaises(pieces_to_place_input)
               \/ IntRaises(placed_pieces_input)
       THEN /\ message' = "critical"
            /\ UNCHANGED <<board, piece_arrangements, found_solutions, pc, stack,
                           arr, args, error, output_file, ret, call, window_vars,
                           saver_vars, form_vars, close_vars>>
       ELSE IF pieces_positions = None
       THEN /\ error' = "AttributeError"
            /\ message' = "critical"
            /\ UNCHANGED <<board, piece_arrangements, found_solutions, pc, stack,
                           arr, args, output_file, ret, call, window_vars,
                           saver_vars, form_vars, close_vars>>
       ELSE DrawBoardClicked(board_size_input[1], pieces_to_place_input[1],
                             placed_pieces_input[1], pieces_positions[1])

\* _validate_inputs enables the OK button when every field holds a
\* coordinate of the board
BoardCells(n) == (0..(n - 1)) \X (0..(n - 1))

FormTexts(max) == {None} \cup { Some(i) : i \in 0..max }

\* The form is used until MaxFormClicks searches have been started.
FormInUse == connections < MaxFormClicks /\ ui_pc = "ready"

NextForm ==
    \/ /\ FormInUse
       /\ \E text \in FormTexts(MaxFormN) \ {Some(0)} : EditBoardSize(text)
    \/ /\ FormInUse
       /\ \E text \in FormTexts(MaxFormL) : EditPiecesToPlace(text)
    \/ /\ FormInUse
       /\ \E text \in FormTexts(MaxFormK) : EditPlacedPieces(text)
    \/ /\ FormInUse
       /\ InitializeBoardClicked
    \/ /\ input_dialog # None
       /\ \E coordinates \in SeqsOfLen(BoardCells(board_size_input[1]), input_dialog[1]) :
             DialogAccept(coordinates)
    \/ DialogReject
    \/ RenderBoardClicked
    \/ Connect
    \/ CallSolver
    \/ RecordSolution
    \/ TryPlace
    \/ Backtrack
    \/ ReturnSolver
    \/ SolvingCompleteQueued
    \/ \E order \in IterOrders : HandleSolution(order)
    \/ DialogClosed

SpecForm == Init /\ [][NextForm]_vars

-----------------------------------------------------------------------------
\* SpecClose: one search, during which the main window may be closed.

\* closeEvent, lines 207-210: the attributes of the window whose name ends
\* in "_thread" and that are QThreads.  The window has none: its solver is
\* self.solver, and save_thread is an attribute of DeskWindow.
active_threads == {}

\* closeEvent: quit() and wait(500) for each of active_threads that is
\* running, then event.accept().  The solver thread is not among them and
\* recursive_solver looks at no flag, so the search is left as it is.
CloseEvent ==
    /\ ~closing
    /\ ui_pc = "ready" /\ dialogs = 0 /\ input_dialog = None
    /\ \A thread \in active_threads : thread # "solver"
    /\ closing' = TRUE
    /\ UNCHANGED <<board, piece_arrangements, found_solutions, pc, stack, arr,
                   args, error, output_file, ret, call, message, window_vars,
                   saver_vars, form_vars, attempts>>

\* main.py line 8: with the last window closed exec() returns and the
\* script ends; a solver thread still in run() ends with the process, at
\* whatever step it has reached.
ProcessExit ==
    /\ closing
    /\ pc # "exited"
    /\ pc' = "exited"
    /\ UNCHANGED <<board, piece_arrangements, found_solutions, stack, arr,
                   args, error, output_file, ret, call, ui_vars>>

NextClose ==
    \/ /\ pc = "idle" /\ ~closing
       /\ \E n \in 1..MaxSearchN, l \in 0..MaxL, k \in 0..MaxK :
             \E initial_pieces \in SeqsOfLen(BoardCells(n), k) :
                RenderBoard(n, l, k, initial_pieces)
    \/ CallSolver
    \/ RecordSolution
    \/ TryPlace
    \/ Backtrack
    \/ ReturnSolver
    \/ SolvingComplete
    \/ CloseEvent
    \/ ProcessExit

SpecClose == Init /\ [][NextClose]_vars

-----------------------------------------------------------------------------
\* Direct calls on one ChessBoard: any sequence of place_piece, remove_piece
\* and is_position_safe on a board that starts empty.

\* board.place_piece(ChessFigure(x, y))
PlaceCall(x, y) ==
    /\ Len(board.placed_pieces) < MaxPieces
    /\ call' = "place_piece"
    /\ LET r == place_piece(board, ChessFigure(FreshId(board), x, y))
       IN  /\ board' = r.board
           /\ ret' = IF r.exc # "" THEN r.exc
                     ELSE IF r.ret THEN "True" ELSE "False"
    /\ UNCHANGED <<piece_arrangements, found_solutions, pc, stack, arr, args,
                   error, output_file>>
    /\ UNCHANGED ui_vars

\* board.remove_piece(piece)
RemoveCall(piece) ==
    /\ call' = "remove_piece"
    /\ LET r == remove_piece(board, piece)
       IN  /\ board' = r.board
           /\ ret' = IF r.exc # "" THEN r.exc ELSE "None"
    /\ UNCHANGED <<piece_arrangements, found_solutions, pc, stack, arr, args,
                   error, output_file>>
    /\ UNCHANGED ui_vars

\* board.is_position_safe(ChessFigure(x, y))
IsSafeCall(x, y) ==
    /\ call' = "is_position_safe"
    /\ LET r == is_position_safe_call(board, ChessFigure(FreshId(board), x, y))
       IN  /\ board' = r.board
           /\ ret' = IF r.exc # "" THEN r.exc
                     ELSE IF r.ret THEN "True" ELSE "False"
    /\ UNCHANGED <<piece_arrangements, found_solutions, pc, stack, arr, args,
                   error, output_file>>
    /\ UNCHANGED ui_vars

\* the pieces a caller may hold: the placed ones, and new objects
CallerPieces ==
    { board.placed_pieces[i] : i \in 1..Len(board.placed_pieces) }
      \cup { ChessFigure(FreshId(board), c[1], c[2]) : c \in InputCoords(board.board_size) }

InitBoard ==
    /\ \E n \in -1..MaxN : board = ChessBoard(n)
    /\ piece_arrangements = <<>>
    /\ found_solutions = {}
    /\ pc = "board"
    /\ stack = <<>>
    /\ arr = 1
    /\ args = [n |-> 0, l |-> 0, k |-> 0, initial_pieces |-> <<>>]
    /\ error = ""
    /\ output_file = None
    /\ ret = "None"
    /\ call = ""
    /\ InitWindows

NextBoard ==
    \/ \E c \in InputCoords(board.board_size) : PlaceCall(c[1], c[2])
    \/ \E piece \in CallerPieces : RemoveCall(piece)
    \/ \E c \in InputCoords(board.board_size) : IsSafeCall(c[1], c[2])

SpecBoard == InitBoard /\ [][NextBoard]_vars

-----------------------------------------------------------------------------
\* Vocabulary of the properties

\* the 8 threat offsets: one or two steps along one axis
ThreatOffsets ==
    { d \in (-2..2) \X (-2..2) : (d[1] = 0) # (d[2] = 0) }

Offset(a, b) == <<b[1] - a[1], b[2] - a[2]>>

\* no two coordinates of S differ by a threat offset
MutuallySafe(S) == \A a \in S : \A b \in S : a # b => Offset(a, b) \notin ThreatOffsets

BoardCoords(n) == (0..(n - 1)) \X (0..(n - 1))

\* the subsets of S with k members
RECURSIVE KSubsets(_, _)
KSubsets(S, k) ==
    IF k = 0 THEN { {} }
    ELSE IF S = {} THEN {}
    ELSE LET e == CHOOSE e \in S : TRUE
         IN  { T \cup {e} : T \in KSubsets(S \ {e}, k - 1) } \cup KSubsets(S \ {e}, k)

\* brute force: every mutually safe set on the n x n board that extends P
\* by l coordinates
AllArrangements(n, P, l) ==
    { S \in { P \cup T : T \in KSubsets(BoardCoords(n) \ P, l) } : MutuallySafe(S) }

InitialSet == { args.initial_pieces[i] : i \in 1..Len(args.initial_pieces) }

\* the pre-placed coordinates are on the board, distinct and mutually safe
SafeSeeding ==
    /\ InitialSet \subseteq BoardCoords(args.n)
    /\ Cardinality(InitialSet) = args.k
    /\ MutuallySafe(InitialSet)

\* two pre-placed coordinates collide or are at a threat offset
UnsafePrePlacement ==
    \E i \in 1..Len(args.initial_pieces) : \E j \in 1..Len(args.initial_pieces) :
       /\ i < j
       /\ \/ args.initial_pieces[i] = args.initial_pieces[j]
          \/ Offset(args.initial_pieces[i], args.initial_pieces[j]) \in ThreatOffsets

\* board size, piece count or a pre-placed coordinate is out of range
InvalidInput ==
    \/ args.n <= 0
    \/ args.l < 0
    \/ ~(InitialSet \subseteq BoardCoords(args.n))

SearchFinished == pc \in {"done", "saved"}

PlacedAt(i) == <<board.placed_pieces[i].pos_x, board.placed_pieces[i].pos_y>>

\* the lines of a text, each without its "\n"
RECURSIVE LinesFrom(_, _)
LinesFrom(text, line) ==
    IF text = <<>> THEN (IF line = <<>> THEN {} ELSE {line})
    ELSE IF Head(text) = "\n" THEN {line} \cup LinesFrom(Tail(text), <<>>)
    ELSE LinesFrom(Tail(text), Append(line, Head(text)))

Lines(text) == LinesFrom(text, <<>>)

LineCount(text) == Cardinality({ i \in 1..Len(text) : text[i] = "\n" })

NoSolutionsLine == SubSeq(NoSolutionsText, 1, Len(NoSolutionsText) - 1)

-----------------------------------------------------------------------------
\* Properties

\* C1: after find_solutions on a new solver, for a mutually safe pre-seeded
\* set P of K pieces, the solution set is exactly the set of all coordinate
\* sets S on the board with P a subset of S, |S| = K + L and no two members
\* at a threat offset; every such set is stored once.
C1_SearchIsExhaustive ==
    (SearchFinished /\ SafeSeeding)
       => /\ found_solutions = AllArrangements(args.n, InitialSet, args.l)
          /\ \A S \in found_solutions : Cardinality(S) = args.k + args.l

\* C1 witness: two pieces on the 2 x 2 board; each of the two solutions is
\* reached in two placement orders and stored once.
C1_Witness ==
    /\ pc = "done"
    /\ args.n = 2 /\ args.l = 2 /\ args.k = 0
    /\ found_solutions = { {<<0, 0>>, <<1, 1>>}, {<<1, 0>>, <<0, 1>>} }

\* C2: on every board reachable by place_piece and remove_piece calls, no
\* two placed pieces are at a threat offset from each other.
C2_NoMutualThreat ==
    \A i \in 1..Len(board.placed_pieces) : \A j \in 1..Len(board.placed_pieces) :
       i # j => Offset(PlacedAt(i), PlacedAt(j)) \notin ThreatOffsets

\* C2 witness: a second piece has been accepted next to a first one.
C2_Witness ==
    /\ pc = "board"
    /\ ret = "True"
    /\ Len(board.placed_pieces) = 2

\* C3: the threatened flag of a cell is set exactly when some placed piece
\* has a threat offset that leads to the cell.
C3_ThreatenedConsistent ==
    \A y \in DOMAIN board.cells : \A x \in DOMAIN board.cells[y] :
       board.cells[y][x].threatened
          <=> \E i \in 1..Len(board.placed_pieces) :
                 Offset(PlacedAt(i), <<x, y>>) \in ThreatOffsets

\* C3 witness: of two pieces at (0,0) and (1,1) the first has been removed;
\* (0,1) and (1,0), threatened by both, stay flagged, (2,0) and (0,2),
\* threatened by the removed piece alone, are cleared.
C3_Witness ==
    /\ pc = "board"
    /\ board.board_size = 3
    /\ ret = "None"
    /\ Len(board.placed_pieces) = 1
    /\ board.placed_pieces[1] = ChessFigure(1, 1, 1)
    /\ board.cells[1][0].threatened /\ board.cells[0][1].threatened
    /\ ~board.cells[0][2].threatened /\ ~board.cells[2][0].threatened

\* C4: no two placed pieces share a coordinate, every placed piece is the
\* occupant of the cell at its coordinate, and every occupant of a cell is
\* in placed_pieces.
C4_GridAgreesWithList ==
    /\ \A i \in 1..Len(board.placed_pieces) : \A j \in 1..Len(board.placed_pieces) :
          i # j => PlacedAt(i) # PlacedAt(j)
    /\ \A i \in 1..Len(board.placed_pieces) :
          /\ PlacedAt(i) \in BoardCoords(board.board_size)
          /\ board.cells[PlacedAt(i)[2]][PlacedAt(i)[1]].piece = Some(board.placed_pieces[i])
    /\ \A y \in DOMAIN board.cells : \A x \in DOMAIN board.cells[y] :
          board.cells[y][x].piece # None
             => \E i \in 1..Len(board.placed_pieces) :
                   board.cells[y][x].piece = Some(board.placed_pieces[i])

\* C4 witness: one of two placed pieces has been removed again.
C4_Witness ==
    /\ pc = "board"
    /\ ret = "None"
    /\ Len(board.placed_pieces) = 1
    /\ board.placed_pieces[1].id = 1

\* C5: whenever is_safe is false for the candidate (its coordinate is
\* outside 0..N-1, its cell is occupied or a placed piece reaches it),
\* place_piece returns false, does not raise, and leaves the board as it
\* is.  Stated for the boards with N >= 1.
C5_UnsafePlaceReturnsFalse ==
    [][\A c \in InputCoords(board.board_size) :
          (/\ board.board_size >= 1
           /\ PlaceCall(c[1], c[2])
           /\ ~is_position_safe(board, ChessFigure(FreshId(board), c[1], c[2])))
             => (ret' = "False" /\ board' = board)]_vars

\* C6: with two pre-placed coordinates that collide or threaten each other,
\* create_board fails and no search is run.  Stated for input that is in
\* range otherwise, so that the unsafe pre-placement is all that is wrong.
C6_UnsafePrePlacementFails ==
    (pc # "idle" /\ UnsafePrePlacement /\ ~InvalidInput) => pc = "failed"

\* C7: input that is out of range is rejected before the search begins.
C7_InvalidInputFails ==
    (pc # "idle" /\ InvalidInput) => pc = "failed"

\* C8: after create_board(n, l, k, initial_pieces) and find_solutions every
\* solution has exactly l + k members.
C8_SolutionSize ==
    SearchFinished => \A S \in found_solutions : Cardinality(S) = args.l + args.k

\* C9: for N >= 1 and L = 0 the search records exactly one solution, the
\* pre-seeded configuration; with K = 0 it is the empty placement.
C9_NothingToPlace ==
    (SearchFinished /\ args.n >= 1 /\ args.l = 0)
       => /\ found_solutions = { { PlacedAt(i) : i \in 1..Len(board.placed_pieces) } }
          /\ SafeSeeding => found_solutions = { InitialSet }
          /\ args.k = 0 => found_solutions = { {} }

\* C9 witness: nothing to place on a board seeded with a piece at (0,0).
C9_Witness ==
    /\ pc = "done"
    /\ args.n >= 1 /\ args.l = 0 /\ args.k = 1
    /\ found_solutions = { {<<0, 0>>} }

\* C10: when the seeded board has no safe arrangement of L further pieces
\* the search ends with an empty solution set; save_results then writes the
\* single line "no solutions", and that line is in the file only when the
\* solution set is empty.
C10_NoSolutions ==
    /\ (SearchFinished /\
          AllArrangements(board.board_size,
                          { PlacedAt(i) : i \in 1..Len(board.placed_pieces) },
                          args.l) = {})
          => found_solutions = {}
    /\ (pc = "saved" /\ error = "")
          => /\ found_solutions = {}
                => (output_file = Some(NoSolutionsText) /\ LineCount(output_file[1]) = 1)
             /\ NoSolutionsLine \in Lines(output_file[1]) => found_solutions = {}

\* C10 witness: N = 1, L = 2, K = 0 has been searched and saved.
C10_Witness ==
    /\ pc = "saved" /\ error = ""
    /\ args.n = 1 /\ args.l = 2 /\ args.k = 0
    /\ found_solutions = {}
    /\ output_file = Some(NoSolutionsText)

\* the four corners of the n x n board
Corners(n) == { <<0, 0>>, <<0, n - 1>>, <<n - 1, 0>>, <<n - 1, n - 1>> }

\* C11: N = 3, L = 1, K = 1 with the pre-placed piece at (1,1): the search of
\* a new solver records exactly four solutions, each (1,1) with one corner;
\* no solution holds (0,1), (2,1), (1,0) or (1,2).
C11_CentreAndCorner ==
    (/\ SearchFinished
     /\ args = [n |-> 3, l |-> 1, k |-> 1, initial_pieces |-> << <<1, 1>> >>])
       => /\ found_solutions = { { <<1, 1>>, c } : c \in Corners(3) }
          /\ Cardinality(found_solutions) = 4
          /\ \A S \in found_solutions :
                S \cap { <<0, 1>>, <<2, 1>>, <<1, 0>>, <<1, 2>> } = {}

\* C11 witness: that search has reported its four solutions.
C11_Witness ==
    /\ pc = "done"
    /\ args = [n |-> 3, l |-> 1, k |-> 1, initial_pieces |-> << <<1, 1>> >>]
    /\ Cardinality(found_solutions) = 4
    /\ { <<1, 1>>, <<2, 2>> } \in found_solutions

\* C12: the solution set grows during one search run only and is read-only
\* afterwards: once a run has reported its set (solving_complete has been
\* emitted), no later step, a later run of the same solver included, adds
\* to the set or changes it.
C12_ReportedSetIsFinal ==
    [][emitted >= 1 => found_solutions' = found_solutions]_vars

OnePiece(n, P) == place_piece(ChessBoard(n), ChessFigure(0, P[1], P[2])).board

\* some offset of the candidate's own possible_moves leads from c to a
\* placed piece
CandidateReaches(c) ==
    \E i \in 1..Len(board.placed_pieces) : \E m \in 1..Len(possible_moves) :
       <<c[1] + possible_moves[m][1], c[2] + possible_moves[m][2]>> = PlacedAt(i)

\* C14: being unsafe is symmetric.  For coordinates P, Q of the board,
\* is_position_safe(Q) is false on the board holding only a piece at P
\* exactly when is_position_safe(P) is false on the board holding only a
\* piece at Q; and on every reachable board is_position_safe is false for a
\* candidate whose own offsets reach a placed piece, although the code tests
\* the offsets of the placed pieces only.
C14_UnsafeIsSymmetric ==
    /\ board.placed_pieces = <<>>
          => \A P \in BoardCoords(board.board_size) :
                \A Q \in BoardCoords(board.board_size) :
                   ~is_position_safe(OnePiece(board.board_size, P), ChessFigure(1, Q[1], Q[2]))
                      <=> ~is_position_safe(OnePiece(board.board_size, Q), ChessFigure(1, P[1], P[2]))
    /\ \A c \in BoardCoords(board.board_size) :
          CandidateReaches(c)
             => ~is_position_safe(board, ChessFigure(FreshId(board), c[1], c[2]))

\* C14 witness: with a piece at (2,0), is_position_safe has refused a
\* candidate while (0,0), two steps to the left, is refused.
C14_Witness ==
    /\ pc = "board"
    /\ board.board_size = 3
    /\ Len(board.placed_pieces) = 1 /\ PlacedAt(1) = <<2, 0>>
    /\ call = "is_position_safe" /\ ret = "False"
    /\ CandidateReaches(<<0, 0>>)
    /\ ~is_position_safe(board, ChessFigure(FreshId(board), 0, 0))

\* the piece is one of the placed objects
IsPlaced(piece) == \E i \in 1..Len(board.placed_pieces) : board.placed_pieces[i] = piece

\* C17: on every reachable board, remove_piece called with a piece that is
\* not the occupant of the cell at its coordinate (the cell is empty, holds
\* another object, or the piece is a new object) changes nothing; called
\* with the occupant it clears that cell and no other, and drops that piece
\* from placed_pieces, the others keeping their order.
C17_RemoveFrame ==
    \A piece \in CallerPieces :
       LET r == remove_piece(board, piece)
       IN  IF ~IsPlaced(piece)
           THEN r.board = board
           ELSE /\ r.exc = ""
                /\ r.board.placed_pieces =
                      SelectSeq(board.placed_pieces, LAMBDA p : p # piece)
                /\ Len(r.board.placed_pieces) = Len(board.placed_pieces) - 1
                /\ r.board.cells[piece.pos_y][piece.pos_x].piece = None
                /\ \A y \in DOMAIN board.cells : \A x \in DOMAIN board.cells[y] :
                      <<x, y>> # <<piece.pos_x, piece.pos_y>>
                         => r.board.cells[y][x].piece = board.cells[y][x].piece

\* C17 witness: on the 2 x 2 board the first of two pieces has been removed
\* and the second, at (1,1), is still placed.
C17_Witness ==
    /\ pc = "board"
    /\ call = "remove_piece" /\ ret = "None"
    /\ board.board_size = 2
    /\ Len(board.placed_pieces) = 1
    /\ board.placed_pieces[1] = ChessFigure(1, 1, 1)
    /\ board.cells[0][0].piece = None

\* Reading a saved file back.  A line is a possibly empty list of items
\* "(x, y)", x and y decimal integers, with one space between two items.

At(text, i) == IF 1 <= i /\ i <= Len(text) THEN text[i] ELSE ""

IsDigit(ch) == \E d \in 1..10 : Digits[d] = ch

DigitValue(ch) == (CHOOSE d \in 1..10 : Digits[d] = ch) - 1

\* the digits from position i on: their value and the position after them
RECURSIVE ParseDigits(_, _, _)
ParseDigits(text, i, value) ==
    IF IsDigit(At(text, i))
    THEN ParseDigits(text, i + 1, 10 * value + DigitValue(At(text, i)))
    ELSE [value |-> value, next |-> i]

ParseInt(text, i) ==
    LET start == IF At(text, i) = "-" THEN i + 1 ELSE i
        d == ParseDigits(text, start, 0)
    IN  [ok |-> d.next > start,
         value |-> IF start > i THEN -d.value ELSE d.value,
         next |-> d.next]

\* one item "(x, y)" at position i
ParseCoord(text, i) ==
    LET x == ParseInt(text, i + 1)
        y == ParseInt(text, x.next + 2)
    IN  [ok |-> /\ At(text, i) = "("
                /\ x.ok
                /\ At(text, x.next) = "," /\ At(text, x.next + 1) = " "
                /\ y.ok
                /\ At(text, y.next) = ")",
         coord |-> <<x.value, y.value>>,
         next |-> y.next + 1]

\* the items of a line from position i on, coords being those read so far
RECURSIVE ParseItems(_, _, _)
ParseItems(line, i, coords) ==
    IF i > Len(line) THEN [ok |-> TRUE, coords |-> coords]
    ELSE LET sep == IF coords = <<>> THEN 0 ELSE 1
             c == ParseCoord(line, i + sep)
         IN  IF (sep = 1 /\ At(line, i) # " ") \/ ~c.ok
             THEN [ok |-> FALSE, coords |-> coords]
             ELSE ParseItems(line, c.next, Append(coords, c.coord))

ParseLine(line) == ParseItems(line, 1, <<>>)

\* the lines of a text in their order, each without its "\n"; what follows
\* the last "\n" counts as a line when it is not empty
RECURSIVE SplitLines(_, _)
SplitLines(text, line) ==
    IF text = <<>> THEN (IF line = <<>> THEN <<>> ELSE <<line>>)
    ELSE IF Head(text) = "\n" THEN <<line>> \o SplitLines(Tail(text), <<>>)
    ELSE SplitLines(Tail(text), Append(line, Head(text)))

SeqToSet(q) == { q[i] : i \in 1..Len(q) }

\* C15: for a non-empty solution set the file written by save_results holds
\* one line per solution, no line twice and none missing; each line is the
\* solution's coordinates as "(x, y)" with single spaces between them; read
\* back, the file gives the same set of solutions, the empty placement
\* (an empty line) included.
C15_SaveRoundTrip ==
    (pc = "saved" /\ error = "" /\ found_solutions # {})
       => LET text == output_file[1]
              ls == SplitLines(text, <<>>)
          IN  /\ text[Len(text)] = "\n"
              /\ Len(ls) = Cardinality(found_solutions)
              /\ \A i \in 1..Len(ls) :
                    /\ ParseLine(ls[i]).ok
                    /\ Len(ParseLine(ls[i]).coords)
                          = Cardinality(SeqToSet(ParseLine(ls[i]).coords))
              /\ \A i \in 1..Len(ls) : \A j \in 1..Len(ls) : i # j => ls[i] # ls[j]
              /\ { SeqToSet(ParseLine(ls[i]).coords) : i \in 1..Len(ls) } = found_solutions

\* C15 witness: the two solutions of N = 2, L = 2 have been written as two
\* lines of two items.
C15_Witness ==
    /\ pc = "saved" /\ error = ""
    /\ found_solutions = { {<<0, 0>>, <<1, 1>>}, {<<1, 0>>, <<0, 1>>} }
    /\ Len(SplitLines(output_file[1], <<>>)) = 2
    /\ Len(ParseLine(SplitLines(output_file[1], <<>>)[1]).coords) = 2

\* the set of solutions a reader finds in a saved file
ReadBack(text) ==
    LET ls == SplitLines(text, <<>>)
    IN  { SeqToSet(ParseLine(ls[i]).coords) : i \in 1..Len(ls) }

\* C16: a save whose file cannot be opened is reported as a failure:
\* completed carries a non-empty message and the critical box is shown,
\* never the success box; no save, failed or not, changes found_solutions,
\* so that every save that succeeds, also one made after a failure to
\* another file, writes the solutions the search has found.
C16_SaveFailureSurfaces ==
    [][(pc' = "saved")
          => /\ found_solutions' = found_solutions
             /\ output_file' = None
                   => (error' # "" /\ message' = "critical")
             /\ output_file' # None
                   => /\ error' = "" /\ message' = "information"
                      /\ found_solutions # {}
                            => ReadBack(output_file'[1]) = found_solutions]_vars

\* C16 witness: a save of a non-empty solution set has failed and the
\* critical box is up.
C16_Witness ==
    /\ pc = "saved"
    /\ output_file = None
    /\ error = "OSError" /\ message = "critical"
    /\ found_solutions # {}

\* the board create_board handed to the search
SeededBoard == create_board(args.n, args.l, args.k, args.initial_pieces).board[1]

\* the pieces held by the activations of recursive_solver, outermost first
RECURSIVE HeldPieces(_)
HeldPieces(frames) ==
    IF frames = <<>> THEN <<>>
    ELSE Head(frames).new_piece \o HeldPieces(Tail(frames))

\* the board b with the pieces added to it: each is the occupant of its
\* cell and a member of placed_pieces, in their order, and the flags are
\* those of all the pieces
BoardWith(b, pieces) ==
    update_threatened_cells(
       [b EXCEPT
          !.cells = [y \in DOMAIN b.cells |-> [x \in DOMAIN b.cells[y] |->
                       IF \E i \in 1..Len(pieces) :
                             pieces[i].pos_x = x /\ pieces[i].pos_y = y
                       THEN [b.cells[y][x] EXCEPT !.piece =
                               Some(pieces[CHOOSE i \in 1..Len(pieces) :
                                      pieces[i].pos_x = x /\ pieces[i].pos_y = y])]
                       ELSE b.cells[y][x]]],
          !.placed_pieces = @ \o pieces])

\* C18: backtracking restores the board.  Throughout the search the board
\* is the seeded board with exactly the pieces placed by the activations
\* still waiting for the call below them, in their order (occupancy,
\* placed_pieces and threatened flags alike): a piece placed by an
\* activation is off the board before that activation tries its next
\* coordinate and when it returns.  When find_solutions has returned the
\* board is the seeded board, holding the pre-placed pieces only.
C18_BacktrackRestores ==
    (pc \in {"running", "done", "saved"})
       => LET seeded == SeededBoard
              held == HeldPieces(stack)
          IN  /\ board.placed_pieces = seeded.placed_pieces \o held
              /\ board = BoardWith(seeded, held)
              /\ \A i \in 1..(Len(stack) - 1) : stack[i].new_piece # None
              /\ SearchFinished => (stack = <<>> /\ board = seeded)

\* C18 witness: the search for one more piece on the 2 x 2 board seeded at
\* (0,0) has recorded its solution and left the seeded piece alone.
C18_Witness ==
    /\ pc = "done"
    /\ args.n = 2 /\ args.l = 1 /\ args.k = 1
    /\ found_solutions = { {<<0, 0>>, <<1, 1>>} }
    /\ board.placed_pieces = <<ChessFigure(0, 0, 0)>>
    /\ board = SeededBoard

\* What is left of a search, as a number.  An activation counts the
\* coordinates its loops have not passed, twice, plus one while it has no
\* piece on the board; the activations are the digits of a number, the
\* outermost first, under the count of the arrangements not yet begun.

CoordsLeft(f) ==
    IF LoopDone(f, board.board_size) THEN 0
    ELSE board.board_size * board.board_size - (f.y * board.board_size + f.x)

FrameLeft(f) == 2 * CoordsLeft(f) + (IF f.new_piece = None THEN 1 ELSE 0)

VariantBase == 2 * RangeLen(board.board_size) * RangeLen(board.board_size) + 2

VariantDepth == args.l + 1

RECURSIVE FramesLeft(_)
FramesLeft(i) ==
    IF i > Len(stack) THEN 0
    ELSE FrameLeft(stack[i]) * VariantBase ^ (VariantDepth - i) + FramesLeft(i + 1)

Variant ==
    (Len(piece_arrangements) + 1 - arr) * VariantBase ^ VariantDepth + FramesLeft(1)

\* the guard of one of the solver's steps holds
SolverCanStep ==
    IF stack = <<>>
    THEN arr <= Len(piece_arrangements) \/ arr > Len(piece_arrangements)
    ELSE \/ Top.remaining_pieces = <<>>
         \/ Top.new_piece # None
         \/ (Top.new_piece = None /\ ~LoopDone(Top, board.board_size))
         \/ (Top.new_piece = None /\ LoopDone(Top, board.board_size))

\* C19: the search terminates.  Whatever N, L and seeded board create_board
\* let through, a running search can always take a step, and every step
\* lowers a natural number (Variant), so that the thread, once scheduled,
\* reaches the emission of solving_complete.  The pieces on the board never
\* exceed K + L; an activation whose loops run out returns without
\* recording a solution and without an error; the signal is emitted only
\* when every arrangement has been searched, and the solution set does not
\* change afterwards.
C19_SearchTerminates ==
    /\ [](pc = "running"
            => /\ SolverCanStep
               /\ Variant >= 0
               /\ Len(stack) <= VariantDepth
               /\ \A i \in 1..Len(stack) : FrameLeft(stack[i]) < VariantBase
               /\ Len(board.placed_pieces) <= args.k + args.l)
    /\ [][(pc = "running" /\ pc' = "running") => Variant' < Variant]_vars
    /\ [][ReturnSolver => (found_solutions' = found_solutions /\ error' = "")]_vars
    /\ [](SearchFinished => (stack = <<>> /\ arr > Len(piece_arrangements)))
    /\ [][SearchFinished => found_solutions' = found_solutions]_vars

\* C19 witness: the search for one piece on the empty 2 x 2 board has run
\* to its end, four solutions recorded.
C19_Witness ==
    /\ pc = "done"
    /\ args.n = 2 /\ args.l = 1 /\ args.k = 0
    /\ stack = <<>>
    /\ Cardinality(found_solutions) = 4

\* C20: a file write of SolutionSaver never runs together with a mutation
\* of the set it reads: while save_results is inside its loop over
\* found_solutions, no step adds to that set.
C20_NoWriteDuringSearch ==
    [][save_pc = "iterating" => found_solutions' = found_solutions]_vars

\* C21: whenever the form starts a search (create_board and start_solving
\* have gone through, the click is about to connect), the list handed to
\* create_board has as many positions as the K field says, and its
\* positions are distinct cells of the board of the N field's size, no two
\* of them threatening each other.
C21_StartedWithValidatedList ==
    ui_pc = "connecting"
        => /\ board_size_input = Some(args.n)
           /\ placed_pieces_input = Some(args.k)
           /\ Len(args.initial_pieces) = args.k
           /\ InitialSet \subseteq BoardCoords(args.n)
           /\ Cardinality(InitialSet) = Len(args.initial_pieces)
           /\ MutuallySafe(InitialSet)

\* C22: the search can be cancelled.  Once the close of the window has
\* asked the threads to stop, the search tries at most one further
\* coordinate for each piece it has to place, and when find_solutions has
\* returned every piece it placed is off the board again: no activation is
\* left and the board is the seeded one.
C22_CancelStopsSearch ==
    closing
       => /\ attempts <= args.l
          /\ pc = "done" => (stack = <<>> /\ board = SeededBoard)

\* C23: the board delivered with solving_complete is the board the search
\* ran on.  When run has emitted, the board it passed (solver.chess_board)
\* is the board find_solutions worked on, with its size and its pre-placed
\* pieces, however the clicks on draw-board fell.
C23_EmittedBoardIsSearched ==
    pc = "done" => chess_board = Some(board)

\* C24: every search started from the window ends in exactly one call of
\* _handle_solution.  Each emission of solving_complete queues exactly one
\* call of the slot: it is not lost (no emission finds the slot unconnected)
\* and not delivered twice (no emission finds it connected twice).
C24_OneCallPerSearch ==
    [][emitted' = emitted + 1 => Len(pending') = Len(pending) + 1]_vars

====
